---------------------------- MODULE Spec2Model ----------------------------
(***************************************************************************)
(* A model of spdlog's pattern formatter                                   *)
(*   include/spdlog/details/pattern_formatter_impl.h                       *)
(*   include/spdlog/details/fmt_helper.h                                   *)
(*                                                                         *)
(* Text is a sequence of one-character strings, so that lengths, padding   *)
(* and concatenation are computed character by character as the code does. *)
(* Time points are counted in microseconds since the epoch.                *)
(***************************************************************************)
EXTENDS Integers, Sequences, FiniteSets, TLC

VARIABLES
    pattern,       \* the argument of compile_pattern
    it,            \* compile_pattern: the iterator, as a 1-based index (Len+1 is end)
    user_chars,    \* compile_pattern: the pending aggregate_formatter, or Null
    length_chars,  \* compile_pattern: the width digits collected by handle_flag
    formatters,    \* pattern_formatter::_formatters
    cpc,           \* position of the constructor: "scan", "flag", "flush", "compiled"
    zcache,        \* per chain slot: the members of a z_formatter (_last_update, _offset_minutes, _mutex)
    os_offset,     \* what os::utc_minutes_offset returns now (the time zone of the host)
    win32,         \* whether the build defines _WIN32
    no_datetime,   \* whether the build defines SPDLOG_NO_DATETIME
    pattern_time,  \* pattern_formatter::_pattern_time: "local" or "utc"
    th,            \* per thread: its position in pattern_formatter::format and its log_msg
    inputs,        \* the log records the callers pass to format: the names, levels and times they may hold
    padst          \* the argument and the buffer of a pad2/pad3/pad6 call

vars == <<pattern, it, user_chars, length_chars, formatters, cpc,
          zcache, os_offset, win32, no_datetime, pattern_time, th, inputs, padst>>


(***************************************************************************)
(* Bounds of the model.                                                    *)
(***************************************************************************)
MaxPatLen == 3
MaxPadArg == 1100
NThreads == 2

(***************************************************************************)
(* Text helpers.                                                           *)
(***************************************************************************)
\* a null std::unique_ptr<aggregate_formatter>
Null == [has |-> FALSE, str |-> <<>>]

DigitChars == <<"0", "1", "2", "3", "4", "5", "6", "7", "8", "9">>

\* static_cast<char>('0' + d)
Chr(d) == DigitChars[d + 1]

IsDigit(c) == \E d \in 0..9 : DigitChars[d + 1] = c

DigitVal(c) == CHOOSE d \in 0..9 : DigitChars[d + 1] = c

\* std::string(n, ch)
Fill(n, ch) == [i \in 1..n |-> ch]

Max(a, b) == IF a >= b THEN a ELSE b

RECURSIVE Flatten(_)
Flatten(ss) == IF ss = <<>> THEN <<>> ELSE Head(ss) \o Flatten(Tail(ss))

(***************************************************************************)
(* fmt_helper.h: integers as text.                                         *)
(***************************************************************************)
RECURSIVE DecDigits(_)
DecDigits(n) == IF n < 10 THEN <<Chr(n)>> ELSE DecDigits(n \div 10) \o <<Chr(n % 10)>>

\* fmt::format_int: the decimal text of a signed integer
format_int(n) == IF n < 0 THEN <<"-">> \o DecDigits(0 - n) ELSE DecDigits(n)

append_int(n, dest) == dest \o format_int(n)

\* fmt::format_to(dest, "{:0w}", n): sign-aware zero padding to width w
format_to_zero(dest, w, n) ==
    LET sign == IF n < 0 THEN <<"-">> ELSE <<>>
        digs == DecDigits(IF n < 0 THEN 0 - n ELSE n)
    IN  dest \o sign \o Fill(Max(0, w - Len(sign) - Len(digs)), "0") \o digs

pad2(n, dest) ==
    IF n > 99 THEN append_int(n, dest)
    ELSE IF n > 9 THEN dest \o <<Chr(n \div 10), Chr(n % 10)>>
    ELSE IF n >= 0 THEN dest \o <<"0", Chr(n)>>
    ELSE format_to_zero(dest, 2, n)

pad3_truncating(n, dest) ==
    IF n > 99 THEN pad2(n % 100, dest \o <<Chr((n \div 100) % 10)>>)
    ELSE IF n > 9 THEN dest \o <<"0", Chr(n \div 10), Chr(n % 10)>>
    ELSE IF n >= 0 THEN dest \o <<"0", "0", Chr(n)>>
    ELSE format_to_zero(dest, 3, n)
pad3(n, dest) ==
    IF n > 999 THEN append_int(n, dest)
    ELSE IF n > 99 THEN pad2(n % 100, dest \o <<Chr(n \div 100)>>)
    ELSE IF n > 9 THEN dest \o <<"0", Chr(n \div 10), Chr(n % 10)>>
    ELSE IF n >= 0 THEN dest \o <<"0", "0", Chr(n)>>
    ELSE format_to_zero(dest, 3, n)

pad6(n, dest) ==
    IF n > 99999 THEN append_int(n, dest)
    ELSE pad3(n % 1000, pad3(n \div 1000, dest))

(***************************************************************************)
(* Tables the formatters look up.  level::to_str and level::to_short_str   *)
(* belong to spdlog/common.h.                                              *)
(***************************************************************************)
days ==
    << <<"S", "u", "n">>,
       <<"M", "o", "n">>,
       <<"T", "u", "e">>,
       <<"W", "e", "d">>,
       <<"T", "h", "u">>,
       <<"F", "r", "i">>,
       <<"S", "a", "t">> >>

full_days ==
    << <<"S", "u", "n", "d", "a", "y">>,
       <<"M", "o", "n", "d", "a", "y">>,
       <<"T", "u", "e", "s", "d", "a", "y">>,
       <<"W", "e", "d", "n", "e", "s", "d", "a", "y">>,
       <<"T", "h", "u", "r", "s", "d", "a", "y">>,
       <<"F", "r", "i", "d", "a", "y">>,
       <<"S", "a", "t", "u", "r", "d", "a", "y">> >>

months ==
    << <<"J", "a", "n">>,
       <<"F", "e", "b">>,
       <<"M", "a", "r">>,
       <<"A", "p", "r">>,
       <<"M", "a", "y">>,
       <<"J", "u", "n", "e">>,
       <<"J", "u", "l", "y">>,
       <<"A", "u", "g">>,
       <<"S", "e", "p", "t">>,
       <<"O", "c", "t">>,
       <<"N", "o", "v">>,
       <<"D", "e", "c">> >>

full_months ==
    << <<"J", "a", "n", "u", "a", "r", "y">>,
       <<"F", "e", "b", "r", "u", "a", "r", "y">>,
       <<"M", "a", "r", "c", "h">>,
       <<"A", "p", "r", "i", "l">>,
       <<"M", "a", "y">>,
       <<"J", "u", "n", "e">>,
       <<"J", "u", "l", "y">>,
       <<"A", "u", "g", "u", "s", "t">>,
       <<"S", "e", "p", "t", "e", "m", "b", "e", "r">>,
       <<"O", "c", "t", "o", "b", "e", "r">>,
       <<"N", "o", "v", "e", "m", "b", "e", "r">>,
       <<"D", "e", "c", "e", "m", "b", "e", "r">> >>

level_names ==
    << <<"t", "r", "a", "c", "e">>,
       <<"d", "e", "b", "u", "g">>,
       <<"i", "n", "f", "o">>,
       <<"w", "a", "r", "n", "i", "n", "g">>,
       <<"e", "r", "r", "o", "r">>,
       <<"c", "r", "i", "t", "i", "c", "a", "l">>,
       <<"o", "f", "f">> >>

short_level_names == << <<"T">>, <<"D">>, <<"I">>, <<"W">>, <<"E">>, <<"C">>, <<"O">> >>

\* level::to_str(l), level::to_short_str(l): l is the enum value, 0 = trace
to_str(l) == level_names[l + 1]
to_short_str(l) == short_level_names[l + 1]

\* details::os::eol of a build that is not _WIN32; "\r\n" under _WIN32
eol(w32) == IF w32 THEN <<"\r", "\n">> ELSE <<"\n">>

(***************************************************************************)
(* flag_formatter and its subclasses.  A formatter of the chain is a       *)
(* record [kind, length, str]: the class, _length, and the text of an      *)
(* aggregate_formatter.  Each format operator returns msg.formatted as the *)
(* call leaves it.                                                         *)
(***************************************************************************)
Fmt(kind, length) == [kind |-> kind, length |-> length, str |-> <<>>]

pad_space_left_truncating(length, w, str) ==
    IF Len(str) < length THEN w \o Fill(length - Len(str), " ") \o str
    ELSE w \o SubSeq(str, 1, length)
pad_space_left(length, w, str) ==
    IF Len(str) < length THEN w \o Fill(length - Len(str), " ") \o str
    ELSE w \o str

pad_space_right(length, w, str) ==
    IF Len(str) < length THEN w \o str \o Fill(length - Len(str), " ")
    ELSE w \o str

\* pad_space_right(w, size_t val): fmt::format("{: <N}", val) with N = _length
pad_space_right_val(length, w, val) ==
    LET s == DecDigits(val)
    IN  w \o s \o Fill(Max(0, length - Len(s)), " ")

\* w << fmt::pad(v, width, '0') for v >= 0: the digits of v, right-aligned
\* and filled with '0' up to width. Every caller passes a calendar field of
\* an assigned tm_time, a sub-second fraction of a time at or after the
\* epoch or a magnitude; where the fill goes for a negative v is decided in
\* the fmt library and is left open here.
fmt_pad(w, v, width) ==
    CASE v >= 0 ->
        LET s == format_int(v)
        IN  w \o Fill(Max(0, width - Len(s)), "0") \o s

ampm(tm) == IF tm.tm_hour >= 12 THEN <<"P", "M">> ELSE <<"A", "M">>

to12h(tm) == IF tm.tm_hour > 12 THEN tm.tm_hour - 12 ELSE tm.tm_hour

pad_n_join2(w, v1, v2, sep) == fmt_pad(fmt_pad(w, v1, 2) \o <<sep>>, v2, 2)

pad_n_join3(w, v1, v2, v3, sep) ==
    fmt_pad(fmt_pad(fmt_pad(w, v1, 2) \o <<sep>>, v2, 2) \o <<sep>>, v3, 2)

\* duration_cast<milliseconds>(duration).count() % 1000, and the like
millis_of(time) == (time \div 1000) % 1000
micros_of(time) == time % 1000000
nanos_of(time) == (time % 1000000) * 1000

name_formatter_format(f, msg, tm) == pad_space_left(f.length, msg.formatted, msg.logger_name)
level_formatter_format(f, msg, tm) == pad_space_left(f.length, msg.formatted, to_str(msg.level))
short_level_formatter_format(f, msg, tm) ==
    pad_space_left(f.length, msg.formatted, to_short_str(msg.level))
a_formatter_format(f, msg, tm) == pad_space_right(f.length, msg.formatted, days[tm.tm_wday + 1])
A_formatter_format(f, msg, tm) ==
    pad_space_right(f.length, msg.formatted, full_days[tm.tm_wday + 1])
b_formatter_format(f, msg, tm) == pad_space_right(f.length, msg.formatted, months[tm.tm_mon + 1])
B_formatter_format(f, msg, tm) ==
    pad_space_right(f.length, msg.formatted, full_months[tm.tm_mon + 1])
i_formatter_format(f, msg, tm) == msg.formatted \o <<"#">> \o format_int(msg.msg_id)
c_formatter_format(f, msg, tm) ==
    LET w1 == msg.formatted \o days[tm.tm_wday + 1] \o <<" ">> \o months[tm.tm_mon + 1]
                \o <<" ">> \o format_int(tm.tm_mday) \o <<" ">>
    IN  pad_n_join3(w1, tm.tm_hour, tm.tm_min, tm.tm_sec, ":")
            \o <<" ">> \o format_int(tm.tm_year + 1900)
C_formatter_format(f, msg, tm) == fmt_pad(msg.formatted, tm.tm_year % 100, 2)
D_formatter_format(f, msg, tm) ==
    pad_n_join3(msg.formatted, tm.tm_mon + 1, tm.tm_mday, tm.tm_year % 100, "/")
Y_formatter_format(f, msg, tm) == msg.formatted \o format_int(tm.tm_year + 1900)
m_formatter_format(f, msg, tm) == fmt_pad(msg.formatted, tm.tm_mon + 1, 2)
d_formatter_format(f, msg, tm) == fmt_pad(msg.formatted, tm.tm_mday, 2)
H_formatter_format(f, msg, tm) == fmt_pad(msg.formatted, tm.tm_hour, 2)
I_formatter_format(f, msg, tm) == fmt_pad(msg.formatted, to12h(tm), 2)
M_formatter_format(f, msg, tm) == fmt_pad(msg.formatted, tm.tm_min, 2)
S_formatter_format(f, msg, tm) == fmt_pad(msg.formatted, tm.tm_sec, 2)
e_formatter_format(f, msg, tm) == fmt_pad(msg.formatted, millis_of(msg.time), 3)
f_formatter_format(f, msg, tm) == fmt_pad(msg.formatted, micros_of(msg.time), 6)
F_formatter_format(f, msg, tm) == fmt_pad(msg.formatted, nanos_of(msg.time), 9)
p_formatter_format(f, msg, tm) == msg.formatted \o ampm(tm)
r_formatter_format(f, msg, tm) ==
    pad_n_join3(msg.formatted, to12h(tm), tm.tm_min, tm.tm_sec, ":") \o <<" ">> \o ampm(tm)
R_formatter_format(f, msg, tm) == pad_n_join2(msg.formatted, tm.tm_hour, tm.tm_min, ":")
T_formatter_format(f, msg, tm) ==
    pad_n_join3(msg.formatted, tm.tm_hour, tm.tm_min, tm.tm_sec, ":")
t_formatter_format(f, msg, tm) == pad_space_right_val(f.length, msg.formatted, msg.thread_id)
pid_formatter_format(f, msg, tm) == pad_space_right_val(f.length, msg.formatted, msg.pid)
v_formatter_format(f, msg, tm) == msg.formatted \o msg.raw
aggregate_formatter_format(f, msg, tm) == msg.formatted \o f.str

\* What a formatter writes from a tm_time that was never assigned: the read
\* is of an indeterminate value, so no text (and no length of it) is
\* excluded. Indeterminate is one element of the buffer that stands for all
\* of them; it is no character.
Indeterminate == "<indeterminate>"

\* what a format that read the unassigned tm_time has appended when it returns
format_unassigned(w) == w \o <<Indeterminate>>

\* z_formatter::format once total_minutes is known (lines 400-415). With
\* SPDLOG_NO_DATETIME total_minutes comes from os::utc_minutes_offset of the
\* unassigned tm_time.
z_formatter_write(w, total_minutes) ==
    IF no_datetime THEN format_unassigned(w)
    ELSE LET is_negative == total_minutes < 0
             total == IF is_negative THEN 0 - total_minutes ELSE total_minutes
             sign == IF is_negative THEN "-" ELSE "+"
         IN  pad_n_join2(w \o <<sign>>, total \div 60, total % 60, ":")

\* The casts to unsigned int leave the calendar fields of a time at or after
\* the epoch as they are.
full_formatter_no_millis(f, msg, tm) ==
    LET w1 == msg.formatted \o <<"[">> \o format_int(tm.tm_year + 1900) \o <<"-">>
        w2 == fmt_pad(w1, tm.tm_mon + 1, 2) \o <<"-">>
        w3 == fmt_pad(w2, tm.tm_mday, 2) \o <<" ">>
        w4 == fmt_pad(w3, tm.tm_hour, 2) \o <<":">>
        w5 == fmt_pad(w4, tm.tm_min, 2) \o <<":">>
        w6 == IF no_datetime THEN msg.formatted
              ELSE fmt_pad(w5, tm.tm_sec, 2) \o <<"]", " ">>
        w8 == w6 \o <<"[">> \o msg.logger_name \o <<"]", " ">>
        w9 == w8 \o <<"[">> \o to_str(msg.level) \o <<"]", " ">>
    IN  w9 \o msg.raw
full_formatter_format(f, msg, tm) ==
    LET millis == millis_of(msg.time)
        w1 == msg.formatted \o <<"[">> \o format_int(tm.tm_year + 1900) \o <<"-">>
        w2 == fmt_pad(w1, tm.tm_mon + 1, 2) \o <<"-">>
        w3 == fmt_pad(w2, tm.tm_mday, 2) \o <<" ">>
        w4 == fmt_pad(w3, tm.tm_hour, 2) \o <<":">>
        w5 == fmt_pad(w4, tm.tm_min, 2) \o <<":">>
        w6 == fmt_pad(w5, tm.tm_sec, 2) \o <<".">>
        w7 == IF no_datetime THEN msg.formatted
              ELSE fmt_pad(w6, millis, 3) \o <<"]", " ">>
        w8 == w7 \o <<"[">> \o msg.logger_name \o <<"]", " ">>
        w9 == w8 \o <<"[">> \o to_str(msg.level) \o <<"]", " ">>
    IN  w9 \o msg.raw

\* the classes whose format reads tm_time
TmReaders ==
    {"a", "A", "b", "B", "c", "C", "D", "Y", "m", "d", "H", "I", "M", "S", "p", "r", "R", "T"}

\* those of them that index days, full_days, months or full_months with
\* tm_wday or tm_mon (lines 133, 158, 177, 195, 221)
TableReaders == {"a", "A", "b", "B", "c"}

\* whether the format of f reads a tm_time that was never assigned
ReadsUnassigned(f) == no_datetime /\ f.kind \in TmReaders \cup {"z"}

\* f->format(msg, tm_time): the virtual call, for every class but z_formatter
flag_format(f, msg, tm) ==
    CASE f.kind = "name" -> name_formatter_format(f, msg, tm)
      [] f.kind = "level" -> level_formatter_format(f, msg, tm)
      [] f.kind = "short_level" -> short_level_formatter_format(f, msg, tm)
      [] f.kind = "t" -> t_formatter_format(f, msg, tm)
      [] f.kind = "v" -> v_formatter_format(f, msg, tm)
      [] f.kind = "a" -> a_formatter_format(f, msg, tm)
      [] f.kind = "A" -> A_formatter_format(f, msg, tm)
      [] f.kind = "b" -> b_formatter_format(f, msg, tm)
      [] f.kind = "B" -> B_formatter_format(f, msg, tm)
      [] f.kind = "c" -> c_formatter_format(f, msg, tm)
      [] f.kind = "C" -> C_formatter_format(f, msg, tm)
      [] f.kind = "Y" -> Y_formatter_format(f, msg, tm)
      [] f.kind = "D" -> D_formatter_format(f, msg, tm)
      [] f.kind = "m" -> m_formatter_format(f, msg, tm)
      [] f.kind = "d" -> d_formatter_format(f, msg, tm)
      [] f.kind = "H" -> H_formatter_format(f, msg, tm)
      [] f.kind = "I" -> I_formatter_format(f, msg, tm)
      [] f.kind = "M" -> M_formatter_format(f, msg, tm)
      [] f.kind = "S" -> S_formatter_format(f, msg, tm)
      [] f.kind = "e" -> e_formatter_format(f, msg, tm)
      [] f.kind = "f" -> f_formatter_format(f, msg, tm)
      [] f.kind = "F" -> F_formatter_format(f, msg, tm)
      [] f.kind = "p" -> p_formatter_format(f, msg, tm)
      [] f.kind = "r" -> r_formatter_format(f, msg, tm)
      [] f.kind = "R" -> R_formatter_format(f, msg, tm)
      [] f.kind = "T" -> T_formatter_format(f, msg, tm)
      [] f.kind = "full" -> full_formatter_format(f, msg, tm)
      [] f.kind = "pid" -> pid_formatter_format(f, msg, tm)
      [] f.kind = "i" -> i_formatter_format(f, msg, tm)
      [] f.kind = "aggregate" -> aggregate_formatter_format(f, msg, tm)

(***************************************************************************)
(* pattern_formatter::handle_flag and compile_pattern.                     *)
(***************************************************************************)
\* strtoul(length_chars.c_str(), nullptr, 10), for digit strings below ULONG_MAX
RECURSIVE strtoul(_)
strtoul(s) == IF s = <<>> THEN 0 ELSE strtoul(SubSeq(s, 1, Len(s) - 1)) * 10 + DigitVal(s[Len(s)])

\* The formatter the switch of handle_flag constructs for a flag that is no
\* digit.  SPDLOG_ENABLE_MESSAGE_COUNTER is not defined: 'i' takes the default.
flag_case_without_digits(flag, length, lc) ==
    IF flag \in {"n", "l", "L", "t", "v", "a", "A", "b", "h", "B", "c", "C", "Y", "D", "x",
                 "m", "d", "H", "I", "M", "S", "e", "f", "F", "p", "r", "R", "T", "X", "z",
                 "+", "P"}
    THEN Fmt(IF flag = "n" THEN "name" ELSE IF flag = "l" THEN "level" ELSE "v", length)
    ELSE [kind |-> "aggregate", length |-> 0, str |-> <<"%", flag>>]
flag_case(flag, length, lc) ==
    CASE flag = "n" -> Fmt("name", length)
      [] flag = "l" -> Fmt("level", length)
      [] flag = "L" -> Fmt("short_level", length)
      [] flag = "t" -> Fmt("t", length)
      [] flag = "v" -> Fmt("v", 0)
      [] flag = "a" -> Fmt("a", length)
      [] flag = "A" -> Fmt("A", length)
      [] flag \in {"b", "h"} -> Fmt("b", length)
      [] flag = "B" -> Fmt("B", length)
      [] flag = "c" -> Fmt("c", 0)
      [] flag = "C" -> Fmt("C", 0)
      [] flag = "Y" -> Fmt("Y", 0)
      [] flag \in {"D", "x"} -> Fmt("D", 0)
      [] flag = "m" -> Fmt("m", 0)
      [] flag = "d" -> Fmt("d", 0)
      [] flag = "H" -> Fmt("H", 0)
      [] flag = "I" -> Fmt("I", 0)
      [] flag = "M" -> Fmt("M", 0)
      [] flag = "S" -> Fmt("S", 0)
      [] flag = "e" -> Fmt("e", 0)
      [] flag = "f" -> Fmt("f", 0)
      [] flag = "F" -> Fmt("F", 0)
      [] flag = "p" -> Fmt("p", 0)
      [] flag = "r" -> Fmt("r", 0)
      [] flag = "R" -> Fmt("R", 0)
      [] flag \in {"T", "X"} -> Fmt("T", 0)
      [] flag = "z" -> Fmt("z", 0)
      [] flag = "+" -> Fmt("full", 0)
      [] flag = "P" -> Fmt("pid", length)
      [] OTHER -> [kind |-> "aggregate", length |-> 0,
                   str |-> <<"%">> \o lc \o <<flag>>]

\* handle_flag(flag, length_chars): what it returns, and length_chars and
\* _formatters as it leaves them
handle_flag_keeping_length(flag, lc, fs) ==
    IF IsDigit(flag)
    THEN [ret |-> FALSE, length_chars |-> lc \o <<flag>>, formatters |-> fs]
    ELSE LET length == IF lc # <<>> THEN strtoul(lc) ELSE 0
         IN  [ret |-> TRUE, length_chars |-> lc,
              formatters |-> Append(fs, flag_case(flag, length, lc))]
handle_flag(flag, lc, fs) ==
    IF IsDigit(flag)
    THEN [ret |-> FALSE, length_chars |-> lc \o <<flag>>, formatters |-> fs]
    ELSE LET length == IF lc # <<>> THEN strtoul(lc) ELSE 0
         IN  [ret |-> TRUE, length_chars |-> <<>>,
              formatters |-> Append(fs, flag_case(flag, length, lc))]

\* aggregate_formatter::add_ch on user_chars, constructed first when null
add_ch(uc, ch) == [has |-> TRUE, str |-> (IF uc.has THEN uc.str ELSE <<>>) \o <<ch>>]

\* if (user_chars) _formatters.push_back(std::move(user_chars))
push_user_chars(fs, uc) ==
    IF uc.has THEN Append(fs, [kind |-> "aggregate", length |-> 0, str |-> uc.str]) ELSE fs

\* the locals of compile_pattern and _formatters, as one value
cstate ==
    [it |-> it, user_chars |-> user_chars, length_chars |-> length_chars,
     formatters |-> formatters, cpc |-> cpc]

cstart == [it |-> 1, user_chars |-> Null, length_chars |-> <<>>, formatters |-> <<>>,
           cpc |-> "scan"]

\* for-loop body, *it is a plain character (lines 584-589), then ++it
scan_plain(p, s) ==
    [s EXCEPT !.user_chars = add_ch(s.user_chars, p[s.it]), !.it = s.it + 1]

\* for-loop body, *it == '%' (lines 570-575): flush user_chars, then the
\* ++it of the while condition
scan_percent(p, s) ==
    [s EXCEPT !.formatters = push_user_chars(s.formatters, s.user_chars),
              !.user_chars = Null, !.it = s.it + 1, !.cpc = "flag"]

\* while (++it != end) { if (handle_flag(*it, length_chars)) break; }: one
\* call of handle_flag and the increment that follows it (the while's when
\* it returned false, the for's when it returned true)
flag_char(p, s) ==
    LET r == handle_flag(p[s.it], s.length_chars, s.formatters)
    IN  [s EXCEPT !.length_chars = r.length_chars, !.formatters = r.formatters,
                  !.cpc = IF r.ret THEN "scan" ELSE "flag", !.it = s.it + 1]

\* the while loop runs into end: if (it == end) break (lines 581-582)
flag_end_no_break(p, s) == s
flag_end(p, s) == [s EXCEPT !.cpc = "flush"]

\* the for loop ends: it == end
scan_end(p, s) == [s EXCEPT !.cpc = "flush"]

\* lines 591-594: if (user_chars) _formatters.push_back(std::move(user_chars))
flush_dropping(p, s) == [s EXCEPT !.user_chars = Null, !.cpc = "compiled"]
flush(p, s) ==
    [s EXCEPT !.formatters = push_user_chars(s.formatters, s.user_chars),
              !.user_chars = Null, !.cpc = "compiled"]

\* one step of compile_pattern(p) from s
compile_step(p, s) ==
    CASE s.cpc = "scan" /\ s.it # Len(p) + 1 /\ p[s.it] # "%" -> scan_plain(p, s)
      [] s.cpc = "scan" /\ s.it # Len(p) + 1 /\ p[s.it] = "%" -> scan_percent(p, s)
      [] s.cpc = "scan" /\ s.it = Len(p) + 1 -> scan_end(p, s)
      [] s.cpc = "flag" /\ s.it # Len(p) + 1 -> flag_char(p, s)
      [] s.cpc = "flag" /\ s.it = Len(p) + 1 -> flag_end(p, s)
      [] s.cpc = "flush" -> flush(p, s)

RECURSIVE run_compile(_, _)
run_compile(p, s) == IF s.cpc = "compiled" THEN s ELSE run_compile(p, compile_step(p, s))

\* _formatters as compile_pattern(p) leaves it in a new pattern_formatter
compile_pattern(p) == run_compile(p, cstart).formatters

\* z_formatter(): _last_update(std::chrono::seconds(0)), _offset_minutes(0),
\* and a free _mutex (owner 0)
z_formatter_new == [last_update |-> 0, offset_minutes |-> 0, owner |-> 0]

\* the members of the z_formatters of a chain, by the slot of the chain
z_members(fs) == [i \in {j \in 1..Len(fs) : fs[j].kind = "z"} |-> z_formatter_new]

SetCompile(s) ==
    /\ it' = s.it
    /\ user_chars' = s.user_chars
    /\ length_chars' = s.length_chars
    /\ formatters' = s.formatters
    /\ cpc' = s.cpc

end == Len(pattern) + 1

ScanPlain ==
    /\ cpc = "scan" /\ it # end /\ pattern[it] # "%"
    /\ SetCompile(scan_plain(pattern, cstate))
    /\ UNCHANGED <<pattern, zcache>>

ScanPercent ==
    /\ cpc = "scan" /\ it # end /\ pattern[it] = "%"
    /\ SetCompile(scan_percent(pattern, cstate))
    /\ UNCHANGED <<pattern, zcache>>

FlagChar ==
    /\ cpc = "flag" /\ it # end
    /\ SetCompile(flag_char(pattern, cstate))
    /\ UNCHANGED <<pattern, zcache>>

FlagEnd ==
    /\ cpc = "flag" /\ it = end
    /\ SetCompile(flag_end(pattern, cstate))
    /\ UNCHANGED <<pattern, zcache>>

ScanEnd ==
    /\ cpc = "scan" /\ it = end
    /\ SetCompile(scan_end(pattern, cstate))
    /\ UNCHANGED <<pattern, zcache>>

\* the constructor returns with the chain and the state its z_formatters
\* were constructed with
Flush ==
    /\ cpc = "flush"
    /\ SetCompile(flush(pattern, cstate))
    /\ zcache' = z_members(formatters')
    /\ UNCHANGED pattern

Compile == ScanPlain \/ ScanPercent \/ FlagChar \/ FlagEnd \/ ScanEnd \/ Flush

(***************************************************************************)
(* The inputs of format: log records, and the calendar breakdown that      *)
(* details::os::localtime gives for each time point.                       *)
(***************************************************************************)
worker == <<"w", "o", "r", "k", "e", "r">>

Names == {<<"w">>, worker}
Levels == {2, 5}
Raws == {<<"h", "i">>}
Times == {5000000, 9042000, 10000000, 16123456}
Offsets == {-90, 60}

localtime(time) ==
    CASE time = 5000000 ->
           [tm_year |-> 124, tm_mon |-> 2, tm_mday |-> 5, tm_wday |-> 2,
            tm_hour |-> 0, tm_min |-> 7, tm_sec |-> 9]
      [] time = 9042000 ->
           [tm_year |-> 114, tm_mon |-> 7, tm_mday |-> 23, tm_wday |-> 6,
            tm_hour |-> 15, tm_min |-> 35, tm_sec |-> 46]
      [] time = 10000000 ->
           [tm_year |-> 99, tm_mon |-> 11, tm_mday |-> 31, tm_wday |-> 5,
            tm_hour |-> 12, tm_min |-> 0, tm_sec |-> 59]
      [] OTHER ->
           [tm_year |-> 101, tm_mon |-> 8, tm_mday |-> 9, tm_wday |-> 0,
            tm_hour |-> 23, tm_min |-> 46, tm_sec |-> 40]

\* os::gmtime: the calendar breakdown in UTC, an hour and a half ahead of
\* the local one of the table above
gmtime(time) ==
    CASE time = 5000000 ->
           [tm_year |-> 124, tm_mon |-> 2, tm_mday |-> 5, tm_wday |-> 2,
            tm_hour |-> 1, tm_min |-> 37, tm_sec |-> 9]
      [] time = 9042000 ->
           [tm_year |-> 114, tm_mon |-> 7, tm_mday |-> 23, tm_wday |-> 6,
            tm_hour |-> 17, tm_min |-> 5, tm_sec |-> 46]
      [] time = 10000000 ->
           [tm_year |-> 99, tm_mon |-> 11, tm_mday |-> 31, tm_wday |-> 5,
            tm_hour |-> 13, tm_min |-> 30, tm_sec |-> 59]
      [] OTHER ->
           [tm_year |-> 101, tm_mon |-> 8, tm_mday |-> 10, tm_wday |-> 1,
            tm_hour |-> 1, tm_min |-> 16, tm_sec |-> 40]

\* pattern_formatter::get_time
get_time(mode, time) == IF mode = "local" THEN localtime(time) ELSE gmtime(time)

\* tm_gmtoff, in minutes, of the std::tm get_time returns where struct tm
\* has the field: localtime fills in the offset of the host, gmtime 0
tm_gmtoff(mode, offset) == IF mode = "local" THEN offset ELSE 0

\* the std::tm of get_time with its tm_gmtoff field
with_gmtoff(tm, off) ==
    [f \in DOMAIN tm \cup {"tm_gmtoff"} |-> IF f = "tm_gmtoff" THEN off ELSE tm[f]]

\* std::tm tm_time of a build with SPDLOG_NO_DATETIME is declared and never
\* assigned (line 768): its fields hold no determined value
UninitTm == [indeterminate |-> TRUE]

\* a log_msg as the logger hands it to format; pid is details::os::pid()
LogMsgs(names, levels, times) ==
    [logger_name : names, level : levels, raw : Raws, time : times,
     thread_id : {4321}, pid : {77}, msg_id : {1}, formatted : {<<>>}]

AllMsgs == [names |-> Names, levels |-> Levels, times |-> Times]

NoMsg == [none |-> TRUE]

Idle == [pc |-> "idle", fi |-> 0, msg |-> NoMsg, tm |-> NoMsg,
         total_minutes |-> 0]

(***************************************************************************)
(* pattern_formatter::format, one thread per call.                         *)
(***************************************************************************)
Threads == DOMAIN th

cache_refresh == 5

\* msg.time - _last_update >= cache_refresh (line 426), in microseconds
refresh_due_strict(time, last_update) == time - last_update > cache_refresh * 1000000
refresh_due(time, last_update) == time - last_update >= cache_refresh * 1000000

otherVars == <<pattern, it, user_chars, length_chars, formatters, cpc, win32,
               no_datetime, pattern_time, inputs, padst>>

\* format is entered with a record: auto tm_time = get_time(msg) (line 766),
\* or std::tm tm_time left unassigned with SPDLOG_NO_DATETIME (line 768).
\* The struct tm of a _WIN32 build has no tm_gmtoff, and an unassigned
\* tm_time has no value of it.
FormatBegin(t) ==
    /\ cpc = "compiled"
    /\ th[t].pc \in {"idle", "done"}
    /\ \E m \in LogMsgs(inputs.names, inputs.levels, inputs.times) :
          th' = [th EXCEPT ![t] = [pc |-> "walk", fi |-> 1, msg |-> m,
                                   tm |-> IF no_datetime THEN UninitTm
                                          ELSE IF win32 THEN get_time(pattern_time, m.time)
                                          ELSE with_gmtoff(get_time(pattern_time, m.time),
                                                           tm_gmtoff(pattern_time, os_offset)),
                                   total_minutes |-> 0]]
    /\ UNCHANGED <<otherVars, zcache, os_offset>>

\* f->format(msg, tm_time) for the next formatter of the chain (line 772)
FormatStep_shared_record(t) ==
    /\ th[t].pc = "walk"
    /\ th[t].fi <= Len(formatters)
    /\ formatters[th[t].fi].kind # "z"
    /\ \E u \in Threads :
          /\ th[u].pc = "walk"
          /\ th' = [th EXCEPT ![t].msg.formatted =
                                  flag_format(formatters[th[t].fi],
                                              [th[u].msg EXCEPT !.formatted = th[t].msg.formatted],
                                              th[u].tm),
                              ![t].fi = th[t].fi + 1]
    /\ UNCHANGED <<otherVars, zcache, os_offset>>
\* With SPDLOG_NO_DATETIME a formatter that reads tm_time reads values that
\* were never assigned: it returns with some text, or, when it indexes a
\* table of names with them, the read may fault and the process ends, format
\* never reaching line 775.
FormatStep(t) ==
    /\ th[t].pc = "walk"
    /\ th[t].fi <= Len(formatters)
    /\ formatters[th[t].fi].kind # "z"
    /\ IF ReadsUnassigned(formatters[th[t].fi])
       THEN \/ th' = [th EXCEPT ![t].msg.formatted = format_unassigned(th[t].msg.formatted),
                                ![t].fi = th[t].fi + 1]
            \/ /\ formatters[th[t].fi].kind \in TableReaders
               /\ th' = [u \in DOMAIN th |-> [th[u] EXCEPT !.pc = "crashed"]]
       ELSE th' = [th EXCEPT ![t].msg.formatted =
                                 flag_format(formatters[th[t].fi], th[t].msg, th[t].tm),
                             ![t].fi = th[t].fi + 1]
    /\ UNCHANGED <<otherVars, zcache, os_offset>>

\* z_formatter::format without _WIN32: os::utc_minutes_offset(tm_time) is
\* tm_time.tm_gmtoff / 60 (line 398); of an unassigned tm_time it is no
\* determined number, and neither is the text of lines 400-415
ZDirect(t) ==
    /\ th[t].pc = "walk"
    /\ th[t].fi <= Len(formatters)
    /\ formatters[th[t].fi].kind = "z"
    /\ ~win32
    /\ IF no_datetime
       THEN th' = [th EXCEPT ![t].msg.formatted = format_unassigned(th[t].msg.formatted),
                             ![t].fi = th[t].fi + 1]
       ELSE th' = [th EXCEPT ![t].total_minutes = th[t].tm.tm_gmtoff, ![t].pc = "zwrite"]
    /\ UNCHANGED <<otherVars, zcache, os_offset>>

\* get_cached_offset: std::lock_guard<std::mutex> l(_mutex) (line 425)
ZLock_without_wait(t) ==
    /\ th[t].pc = "walk"
    /\ th[t].fi <= Len(formatters)
    /\ formatters[th[t].fi].kind = "z"
    /\ win32
    /\ zcache' = [zcache EXCEPT ![th[t].fi].owner = t]
    /\ th' = [th EXCEPT ![t].pc = "zlocked"]
    /\ UNCHANGED <<otherVars, os_offset>>
ZLock(t) ==
    /\ th[t].pc = "walk"
    /\ th[t].fi <= Len(formatters)
    /\ formatters[th[t].fi].kind = "z"
    /\ win32
    /\ zcache[th[t].fi].owner = 0
    /\ zcache' = [zcache EXCEPT ![th[t].fi].owner = t]
    /\ th' = [th EXCEPT ![t].pc = "zlocked"]
    /\ UNCHANGED <<otherVars, os_offset>>

\* lines 426-428: the test, and _offset_minutes = os::utc_minutes_offset(tm_time),
\* which under _WIN32 asks the host for its time zone
ZCheck(t) ==
    /\ th[t].pc = "zlocked"
    /\ IF refresh_due(th[t].msg.time, zcache[th[t].fi].last_update)
       THEN /\ zcache' = [zcache EXCEPT ![th[t].fi].offset_minutes = os_offset]
            /\ th' = [th EXCEPT ![t].pc = "zstamp"]
       ELSE /\ th' = [th EXCEPT ![t].pc = "zreturn"]
            /\ UNCHANGED zcache
    /\ UNCHANGED <<otherVars, os_offset>>

\* line 429: _last_update = msg.time
ZStamp(t) ==
    /\ th[t].pc = "zstamp"
    /\ zcache' = [zcache EXCEPT ![th[t].fi].last_update = th[t].msg.time]
    /\ th' = [th EXCEPT ![t].pc = "zreturn"]
    /\ UNCHANGED <<otherVars, os_offset>>

\* line 431: return _offset_minutes, and the lock_guard releases _mutex
ZReturn(t) ==
    /\ th[t].pc = "zreturn"
    /\ th' = [th EXCEPT ![t].total_minutes = zcache[th[t].fi].offset_minutes,
                        ![t].pc = "zwrite"]
    /\ zcache' = [zcache EXCEPT ![th[t].fi].owner = 0]
    /\ UNCHANGED <<otherVars, os_offset>>

\* lines 400-415: the sign and hh:mm of total_minutes, and z_formatter::format
\* returns (total_minutes is a local of it)
ZWrite(t) ==
    /\ th[t].pc = "zwrite"
    /\ th' = [th EXCEPT ![t].msg.formatted = z_formatter_write(th[t].msg.formatted, th[t].total_minutes),
                        ![t].total_minutes = 0,
                        ![t].fi = th[t].fi + 1,
                        ![t].pc = "walk"]
    /\ UNCHANGED <<otherVars, zcache, os_offset>>

\* line 775: msg.formatted.write(details::os::eol, details::os::eol_size)
FormatEol(t) ==
    /\ th[t].pc = "walk"
    /\ th[t].fi = Len(formatters) + 1
    /\ th' = [th EXCEPT ![t].msg.formatted = th[t].msg.formatted \o eol(win32),
                        ![t].pc = "done"]
    /\ UNCHANGED <<otherVars, zcache, os_offset>>

\* the host's time zone changes (a daylight saving switch, a new TZ setting)
TzChange ==
    /\ cpc = "compiled"
    /\ \E o \in Offsets \ {os_offset} : os_offset' = o
    /\ UNCHANGED <<otherVars, zcache, th>>

CompileStep ==
    Compile /\ UNCHANGED <<os_offset, win32, no_datetime, pattern_time, th, inputs, padst>>

Format ==
    \/ \E t \in Threads : FormatBegin(t)
    \/ \E t \in Threads : FormatStep(t)
    \/ \E t \in Threads : ZDirect(t)
    \/ \E t \in Threads : ZLock(t)
    \/ \E t \in Threads : ZCheck(t)
    \/ \E t \in Threads : ZStamp(t)
    \/ \E t \in Threads : ZReturn(t)
    \/ \E t \in Threads : ZWrite(t)
    \/ \E t \in Threads : FormatEol(t)

Next == CompileStep \/ Format \/ TzChange

(***************************************************************************)
(* Calls of pad2, pad3 and pad6 on a buffer.                               *)
(***************************************************************************)
NoPad == [op |-> "none", n |-> 0, dest0 |-> <<>>, dest |-> <<>>]

PadArgs == (0 - 12)..MaxPadArg \cup {9999, 10000, 99998, 99999, 100000, 100001, 123456, 1234567}

PadCall(op, n) ==
    /\ padst.op = "none"
    /\ padst' = [padst EXCEPT !.op = op, !.n = n,
                   !.dest = CASE op = "pad2" -> pad2(n, padst.dest0)
                              [] op = "pad3" -> pad3(n, padst.dest0)
                              [] op = "pad6" -> pad6(n, padst.dest0)]
    /\ UNCHANGED <<pattern, it, user_chars, length_chars, formatters, cpc,
                   zcache, os_offset, win32, no_datetime, pattern_time, th, inputs>>

Pad2 == \E n \in PadArgs : PadCall("pad2", n)
Pad3 == \E n \in PadArgs : PadCall("pad3", n)
\* pad6 takes a size_t
Pad6 == \E n \in PadArgs : n >= 0 /\ PadCall("pad6", n)

NextPad == Pad2 \/ Pad3 \/ Pad6

(***************************************************************************)
(* Initial states and specifications.                                      *)
(***************************************************************************)
InitConf(patterns, nthreads, builds, msgs, modes, nodts) ==
    /\ pattern \in patterns
    /\ pattern_time \in modes
    /\ no_datetime \in nodts
    /\ it = 1
    /\ user_chars = Null
    /\ length_chars = <<>>
    /\ formatters = <<>>
    /\ cpc = "scan"
    /\ zcache = <<>>
    /\ os_offset \in Offsets
    /\ win32 \in builds
    /\ th = [t \in 1..nthreads |-> Idle]
    /\ inputs = msgs
    /\ padst = NoPad

\* the default: pattern_time_type::local, SPDLOG_NO_DATETIME not defined
InitWith(patterns, nthreads, builds, msgs) ==
    InitConf(patterns, nthreads, builds, msgs, {"local"}, {FALSE})

Alphabet == {"%", "3", "l", "n", "Q", ":"}

\* every pattern over Alphabet of at most MaxPatLen characters
BoundedPatterns == UNION {[1..k -> Alphabet] : k \in 0..MaxPatLen}

Selectors ==
    {"n", "l", "L", "t", "v", "a", "A", "b", "h", "B", "c", "C", "Y", "D", "x", "m",
     "d", "H", "I", "M", "S", "e", "f", "F", "p", "r", "R", "T", "X", "z", "+", "P",
     "i", "Q", "%"}

Widths == {<<>>, <<"2">>, <<"7">>, <<"1", "2">>}

\* "%<digits>X" for every selector X, followed by a directive without digits
DirectivePatterns ==
    {<<"%">> \o w \o <<x>> \o tl : w \in Widths, x \in Selectors, tl \in {<<>>, <<"|", "%", "l">>}}

\* the default pattern of spdlog, "[%Y-%m-%d %H:%M:%S.%e] [%n] [%l] %v"
DefaultPattern ==
    <<"[", "%", "Y", "-", "%", "m", "-", "%", "d", " ", "%", "H", ":", "%", "M", ":",
      "%", "S", ".", "%", "e", "]", " ", "[", "%", "n", "]", " ", "[", "%", "l", "]",
      " ", "%", "v">>

NamedPatterns ==
    {DefaultPattern,
     <<"%", "Y", "-", "%", "m", "-", "%", "d">>,
     <<"%", "z", " ", "%", "z">>,
     <<"%", "l", ":", "%", "n">>,
     <<"%", "l", ":", "%", "n", "%">>}

\* the patterns of a formatter constructed with pattern_time_type::utc
UtcPatterns ==
    {DefaultPattern,
     <<"%", "z">>,
     <<"%", "H", ":", "%", "M">>,
     <<"%", "+">>,
     <<"%", "l", ":", "%", "n">>}

\* the patterns of a build with SPDLOG_NO_DATETIME
NoDatetimePatterns ==
    {<<"%", "z">>,
     <<"%", "c">>,
     <<"%", "H", ":", "%", "M">>,
     <<"%", "+">>,
     <<"%", "l", ":", "%", "n">>}

Init ==
    \/ InitWith(BoundedPatterns \cup DirectivePatterns \cup NamedPatterns, 1, BOOLEAN, AllMsgs)
    \/ InitConf(UtcPatterns, 1, BOOLEAN, AllMsgs, {"utc"}, {FALSE})
    \/ InitConf(NoDatetimePatterns, 1, BOOLEAN, AllMsgs, {"local", "utc"}, {TRUE})

Spec == Init /\ [][Next]_vars

InitPad ==
    /\ pattern = <<>>
    /\ it = 1
    /\ user_chars = Null
    /\ length_chars = <<>>
    /\ formatters = <<>>
    /\ cpc = "scan"
    /\ zcache = <<>>
    /\ os_offset = 0
    /\ win32 = FALSE
    /\ no_datetime = FALSE
    /\ pattern_time = "local"
    /\ th = <<>>
    /\ inputs = [names |-> {}, levels |-> {}, times |-> {}]
    /\ padst \in {[NoPad EXCEPT !.dest0 = d, !.dest = d] : d \in {<<>>, <<"x", "1">>}}

SpecPad == InitPad /\ [][NextPad]_vars

\* one formatter with an offset directive, shared by NThreads threads
PatternsZ == {<<"%", "L", ":", "%", "z">>}

InitZ == InitWith(PatternsZ, NThreads, BOOLEAN, [names |-> {<<"w">>}, levels |-> {2}, times |-> Times])

SpecZ == InitZ /\ [][Next]_vars

\* one formatter shared by NThreads threads, each with records of its own
PatternsMT == {<<"%", "l", ":", "%", "n">>, <<"%", "n", "%", "z">>}

InitMT == InitWith(PatternsMT, NThreads, BOOLEAN,
                   [names |-> Names, levels |-> {2}, times |-> {5000000, 10000000}])

SpecMT == InitMT /\ [][Next]_vars

\* the constructor alone, which runs to its end once it is called
SpecCompile == Init /\ [][CompileStep]_vars /\ WF_vars(CompileStep)

(***************************************************************************)
(* The pattern language as the specification words it: a pattern is a      *)
(* sequence of tokens, a literal run or "%<digits>?<selector>".            *)
(***************************************************************************)
CatalogSelectors ==
    {"n", "l", "L", "t", "P", "v", "a", "A", "b", "h", "B", "c", "C", "Y", "D", "x",
     "m", "d", "H", "I", "M", "S", "e", "f", "F", "p", "r", "R", "T", "X", "z", "+"}

\* how many leading characters of p are plain, and how many are digits
RECURSIVE PlainRun(_)
PlainRun(p) == IF p = <<>> \/ Head(p) = "%" THEN 0 ELSE 1 + PlainRun(Tail(p))

RECURSIVE DigitRun(_)
DigitRun(p) == IF p = <<>> \/ ~IsDigit(Head(p)) THEN 0 ELSE 1 + DigitRun(Tail(p))

Drop(p, k) == SubSeq(p, k + 1, Len(p))

RECURSIVE Tokens(_)
Tokens(p) ==
    IF p = <<>> THEN <<>>
    ELSE IF Head(p) # "%"
    THEN LET k == PlainRun(p)
         IN  <<[dir |-> FALSE, digits |-> <<>>, sel |-> "", text |-> SubSeq(p, 1, k)]>>
                 \o Tokens(Drop(p, k))
    ELSE LET d == DigitRun(Tail(p))
         IN  IF d + 2 > Len(p) THEN <<>>
             ELSE <<[dir |-> TRUE, digits |-> SubSeq(p, 2, d + 1), sel |-> p[d + 2],
                     text |-> SubSeq(p, 1, d + 2)]>> \o Tokens(Drop(p, d + 2))

\* the decimal value of a digit string
RECURSIVE DecValue(_)
DecValue(s) == IF s = <<>> THEN 0 ELSE DecValue(SubSeq(s, 1, Len(s) - 1)) * 10 + DigitVal(s[Len(s)])

\* the text one token stands for, for a record, its calendar breakdown and
\* the UTC offset zo the offset directive obtained
TokenText(tok, msg, tm, zo) ==
    IF ~tok.dir THEN tok.text
    ELSE IF tok.sel \notin CatalogSelectors THEN tok.text
    ELSE IF tok.sel = "z" THEN z_formatter_write(<<>>, zo)
    ELSE LET f == flag_case(tok.sel, DecValue(tok.digits), tok.digits)
         IN  IF ReadsUnassigned(f) THEN format_unassigned(<<>>)
             ELSE flag_format(f, [msg EXCEPT !.formatted = <<>>], tm)

ZVals == Offsets \cup {0}

ZSlotsOf(toks) == {k \in 1..Len(toks) : toks[k].dir /\ toks[k].sel = "z"}

\* the texts of the first n tokens, in the order of the pattern; zo gives
\* the offset of each offset directive
TokensText(toks, n, msg, tm, zo) ==
    Flatten([k \in 1..n |-> TokenText(toks[k], msg, tm, IF k \in DOMAIN zo THEN zo[k] ELSE 0)])

\* the chain applied to a record in compile order, starting from buffer w
RECURSIVE RenderChain(_, _, _, _, _, _)
RenderChain(fs, k, w, msg, tm, zo) ==
    IF k > Len(fs) THEN w
    ELSE RenderChain(fs, k + 1,
                     IF fs[k].kind = "z" THEN z_formatter_write(w, zo[k])
                     ELSE IF ReadsUnassigned(fs[k]) THEN format_unassigned(w)
                     ELSE flag_format(fs[k], [msg EXCEPT !.formatted = w], tm),
                     msg, tm, zo)

Walking(t) == th[t].pc = "walk"
Done(t) == th[t].pc = "done"
Crashed(t) == th[t].pc = "crashed"

(***************************************************************************)
(* Claims.                                                                 *)
(***************************************************************************)
FormatterKinds ==
    {"name", "level", "short_level", "t", "v", "a", "A", "b", "B", "c", "C", "Y", "D",
     "m", "d", "H", "I", "M", "S", "e", "f", "F", "p", "r", "R", "T", "z", "full", "pid",
     "aggregate"}

\* C1: compile_pattern ends for every pattern, well-formed or not: the
\* constructor reaches its return with a chain of formatters, the iterator
\* only moves forward, by one character a step, and never passes the end.
C1_CompileTotal ==
    /\ <>(cpc = "compiled")
    /\ [](\A k \in 1..Len(formatters) : formatters[k].kind \in FormatterKinds)
    /\ [][it' \in {it, it + 1} /\ it' <= Len(pattern) + 1]_vars

\* a pattern that ends inside a "%<digits>" prefix has compiled, to the empty chain
C1_Witness == cpc = "compiled" /\ pattern = <<"%", "3">> /\ formatters = <<>>

\* C2: what format has appended is the text of the pattern's tokens in the
\* order of the pattern: the first fi-1 tokens while the chain is walked,
\* all of them and one line terminator once the call is over, however it
\* ended.
C2_TokensInOrder ==
    \A t \in Threads :
        (Walking(t) \/ Done(t) \/ Crashed(t)) =>
            LET toks == Tokens(pattern)
                n == IF Walking(t) THEN th[t].fi - 1 ELSE Len(toks)
                tail == IF Walking(t) THEN <<>> ELSE eol(win32)
            IN  \E zo \in [ZSlotsOf(toks) -> ZVals] :
                    th[t].msg.formatted = TokensText(toks, n, th[t].msg, th[t].tm, zo) \o tail

\* C3: a directive whose selector is not in the catalog compiles to a
\* literal of its own source text, '%', the digits, the selector; and the
\* token after it compiles as it does standing alone.
C3_UnknownSelectorLiteral ==
    cpc = "compiled" =>
        LET toks == Tokens(pattern)
        IN  /\ Len(formatters) = Len(toks)
            /\ \A k \in 1..Len(toks) :
                  (toks[k].dir /\ toks[k].sel \notin CatalogSelectors) =>
                      /\ formatters[k] = [kind |-> "aggregate", length |-> 0,
                                          str |-> <<"%">> \o toks[k].digits \o <<toks[k].sel>>]
                      /\ k < Len(toks) => <<formatters[k + 1]>> = compile_pattern(toks[k + 1].text)

\* "%3Q" has been formatted as "%3Q"
C3_Witness ==
    \E t \in Threads :
        /\ Done(t) /\ ~win32
        /\ pattern = <<"%", "3", "Q">>
        /\ th[t].msg.formatted = <<"%", "3", "Q", "\n">>

\* the pattern ends in a '%' that opens a directive: what precedes it is
\* whole tokens
BareTrailingPercent(p) ==
    /\ p # <<>>
    /\ p[Len(p)] = "%"
    /\ LET q == SubSeq(p, 1, Len(p) - 1)
           toks == Tokens(q)
       IN  Flatten([k \in 1..Len(toks) |-> toks[k].text]) = q

\* C4: a pattern that ends in a bare '%' compiles to the chain of the
\* pattern without that '%', and format gives what that chain gives.
C4_TrailingPercentDropped ==
    BareTrailingPercent(pattern) =>
        LET fs == compile_pattern(SubSeq(pattern, 1, Len(pattern) - 1))
        IN  /\ cpc = "compiled" => formatters = fs
            /\ \A t \in Threads :
                  Done(t) =>
                      \E zo \in [DOMAIN z_members(fs) -> ZVals] :
                          th[t].msg.formatted =
                              RenderChain(fs, 1, <<>>, th[t].msg, th[t].tm, zo) \o eol(win32)

\* "%l:%n%" has been formatted as "%l:%n" is
C4_Witness ==
    \E t \in Threads :
        /\ Done(t) /\ ~win32
        /\ pattern = <<"%", "l", ":", "%", "n", "%">>
        /\ th[t].msg.level = 2 /\ th[t].msg.logger_name = worker
        /\ th[t].msg.formatted = <<"i", "n", "f", "o", ":", "w", "o", "r", "k", "e", "r", "\n">>

Window == cache_refresh * 1000000

Abs(x) == IF x < 0 THEN 0 - x ELSE x

\* thread t is inside get_cached_offset of the z_formatter at slot th[t].fi
InCache(t) == th[t].pc \in {"zlocked", "zstamp", "zreturn"}

\* C5 as stated: two calls of one offset directive whose record timestamps
\* differ by less than the refresh window obtain the same offset (the calls
\* of two threads that both hold the value get_cached_offset returned).
C5_SameOffsetWithinWindow ==
    \A a, b \in Threads :
        (/\ win32
         /\ th[a].pc = "zwrite" /\ th[b].pc = "zwrite"
         /\ th[a].fi = th[b].fi
         /\ Abs(th[a].msg.time - th[b].msg.time) < Window)
        => th[a].total_minutes = th[b].total_minutes

\* C5, amended: in a _WIN32 build, a call whose record timestamp is less
\* than the window after the _last_update of its z_formatter leaves the
\* cache as it is and returns the stored offset, whatever the host's offset
\* is now; any other call stores the host's offset and then the record's
\* timestamp, and returns that offset.
C5_RefreshByLastUpdate ==
    [][\A t \in Threads :
          LET k == th[t].fi
          IN  /\ (th[t].pc = "zlocked" /\ th'[t].pc # "zlocked") =>
                    IF th[t].msg.time - zcache[k].last_update < Window
                    THEN zcache'[k] = zcache[k] /\ th'[t].pc = "zreturn"
                    ELSE /\ zcache'[k].offset_minutes = os_offset
                         /\ th'[t].pc = "zstamp"
              /\ (th[t].pc = "zstamp" /\ th'[t].pc # "zstamp") =>
                    /\ zcache'[k].last_update = th[t].msg.time
                    /\ zcache'[k].offset_minutes = zcache[k].offset_minutes
                    /\ th'[t].pc = "zreturn"
              /\ (th[t].pc = "zreturn" /\ th'[t].pc # "zreturn") =>
                    th'[t].total_minutes = zcache[k].offset_minutes
              /\ (InCache(t) /\ th'[t] = th[t]) => zcache'[k] = zcache[k]
      ]_vars

\* a call is about to return a stored offset that is not the host's offset now
C5_Witness ==
    \E t \in Threads :
        /\ win32 /\ th[t].pc = "zreturn"
        /\ zcache[th[t].fi].offset_minutes # os_offset
        /\ th[t].msg.time - zcache[th[t].fi].last_update < Window
        /\ th[t].msg.time - zcache[th[t].fi].last_update > 0

\* C6: whatever the interleaving, each thread's buffer holds what the chain
\* gives for its own record when applied in order with nothing else running
\* (up to the offsets its offset directives obtained), and the chain stays
\* the one the constructor compiled.
C6_ConcurrentAsSequential ==
    /\ cpc = "compiled" => formatters = compile_pattern(pattern)
    /\ \A t \in Threads :
          (Walking(t) \/ Done(t)) =>
              LET n == IF Done(t) THEN Len(formatters) ELSE th[t].fi - 1
                  tail == IF Done(t) THEN eol(win32) ELSE <<>>
              IN  \E zo \in [DOMAIN zcache -> ZVals] :
                      th[t].msg.formatted =
                          RenderChain(SubSeq(formatters, 1, n), 1, <<>>, th[t].msg, th[t].tm, zo)
                              \o tail

\* two threads are in the middle of format at once, on records with different names
C6_Witness ==
    \E a, b \in Threads :
        /\ a # b
        /\ Walking(a) /\ th[a].fi = 2
        /\ Walking(b) /\ th[b].fi = 2
        /\ th[a].msg.logger_name # th[b].msg.logger_name

\* C7: an offset that get_cached_offset is about to return was stored by a
\* refresh whose timestamp (_last_update) lies within the refresh window of
\* the record's timestamp.
C7_StalenessBounded ==
    \A t \in Threads :
        (win32 /\ th[t].pc = "zreturn") =>
            Abs(th[t].msg.time - zcache[th[t].fi].last_update) <= Window

RECURSIVE NumDigits(_)
NumDigits(n) == IF n < 10 THEN 1 ELSE 1 + NumDigits(n \div 10)

PadWidth(op) == CASE op = "pad2" -> 2 [] op = "pad3" -> 3 [] op = "pad6" -> 6

\* what the call appended to the buffer
PadOut == SubSeq(padst.dest, Len(padst.dest0) + 1, Len(padst.dest))

\* C8: for n >= 0, pad2, pad3 and pad6 leave the buffer's content in place
\* and append digits only, whose value is n, as many as n has but not fewer
\* than the nominal width.
C8_PadAtLeastWidth ==
    (padst.op # "none" /\ padst.n >= 0) =>
        /\ SubSeq(padst.dest, 1, Len(padst.dest0)) = padst.dest0
        /\ \A i \in 1..Len(PadOut) : IsDigit(PadOut[i])
        /\ DecValue(PadOut) = padst.n
        /\ Len(PadOut) = Max(PadWidth(padst.op), NumDigits(padst.n))

\* pad3(1000) has appended "1000" to a buffer that held "x1"
C8_Witness ==
    /\ padst.op = "pad3" /\ padst.n = 1000
    /\ padst.dest = <<"x", "1", "1", "0", "0", "0">>

\* C9: in a build that does not define SPDLOG_NO_DATETIME, "%+" gives what
\* the chain of the default pattern gives for the record and the calendar
\* breakdown of the call, local or UTC.
C9_FullLineIsDefaultPattern ==
    \A t \in Threads :
        (Done(t) /\ pattern = <<"%", "+">> /\ ~no_datetime) =>
            th[t].msg.formatted =
                RenderChain(compile_pattern(DefaultPattern), 1, <<>>, th[t].msg, th[t].tm, <<>>)
                    \o eol(win32)

\* "%+" has been applied to a record of logger "worker" at level info
C9_Witness ==
    \E t \in Threads :
        /\ Done(t) /\ pattern = <<"%", "+">> /\ ~win32
        /\ th[t].msg.formatted =
              <<"[", "2", "0", "1", "4", "-", "0", "8", "-", "2", "3", " ",
                "1", "5", ":", "3", "5", ":", "4", "6", ".", "0", "4", "2", "]", " ",
                "[", "w", "o", "r", "k", "e", "r", "]", " ", "[", "i", "n", "f", "o", "]", " ",
                "h", "i", "\n">>

LeftPadded == {"n", "l", "L"}
RightPadded == {"a", "A", "b", "h", "B"}

\* the text a width-aware textual directive shows
FieldText(sel, msg, tm) ==
    CASE sel = "n" -> msg.logger_name
      [] sel = "l" -> level_names[msg.level + 1]
      [] sel = "L" -> short_level_names[msg.level + 1]
      [] sel = "a" -> days[tm.tm_wday + 1]
      [] sel = "A" -> full_days[tm.tm_wday + 1]
      [] sel \in {"b", "h"} -> months[tm.tm_mon + 1]
      [] sel = "B" -> full_months[tm.tm_mon + 1]

\* C10: when the first token of the pattern is a width-aware textual
\* directive of width w for text s, the buffer after it holds s in full,
\* with w - len(s) spaces if that is positive, before s for name and level,
\* after s for weekday and month names.
C10_TextPadding ==
    \A t \in Threads :
        LET toks == Tokens(pattern)
        IN  (/\ Walking(t) /\ th[t].fi = 2
             /\ toks[1].dir /\ toks[1].sel \in LeftPadded \cup RightPadded) =>
                LET s == FieldText(toks[1].sel, th[t].msg, th[t].tm)
                    w == DecValue(toks[1].digits)
                    sp == Fill(Max(0, w - Len(s)), " ")
                    out == th[t].msg.formatted
                IN  /\ Len(out) = Max(Len(s), w)
                    /\ out = IF toks[1].sel \in LeftPadded THEN sp \o s ELSE s \o sp

\* "%7n" has given " worker" and "%2n" would have given "worker"
C10_Witness ==
    \E t \in Threads :
        /\ Walking(t) /\ th[t].fi = 2
        /\ pattern = <<"%", "7", "n">>
        /\ th[t].msg.formatted = <<" ", "w", "o", "r", "k", "e", "r">>

WidthAware == {"n", "l", "L", "t", "P", "a", "A", "b", "h", "B"}
NotWidthAware == CatalogSelectors \ WidthAware

\* the pattern of the tokens with the digits of every directive that is not
\* width-aware taken out
StripWidths(toks) ==
    Flatten([k \in 1..Len(toks) |->
                IF toks[k].dir /\ toks[k].sel \in NotWidthAware
                THEN <<"%", toks[k].sel>> ELSE toks[k].text])

\* C11: the formatter of a directive that is not width-aware is the one
\* "%X" alone compiles to, whatever digits it carries; the formatter of a
\* directive written without digits has width 0 (and, for an unknown
\* selector, echoes no digits) whatever precedes it in the pattern; and the
\* line written is the line of the pattern with those digits taken out.
C11_WidthOnlyOwnDirective ==
    /\ cpc = "compiled" =>
          LET toks == Tokens(pattern)
          IN  /\ Len(formatters) = Len(toks)
              /\ \A k \in 1..Len(toks) :
                    /\ (toks[k].dir /\ toks[k].sel \in NotWidthAware) =>
                          formatters[k] = compile_pattern(<<"%", toks[k].sel>>)[1]
                    /\ (toks[k].dir /\ toks[k].digits = <<>>) =>
                          /\ formatters[k].length = 0
                          /\ toks[k].sel \notin CatalogSelectors =>
                                formatters[k].str = <<"%", toks[k].sel>>
    /\ \A t \in Threads :
          Done(t) =>
              \E zo \in [DOMAIN zcache -> ZVals] :
                  th[t].msg.formatted =
                      RenderChain(compile_pattern(StripWidths(Tokens(pattern))), 1, <<>>,
                                  th[t].msg, th[t].tm, zo) \o eol(win32)

\* "%7Y|%l" has given "2014|info": no padding of the year, none of the level
C11_Witness ==
    \E t \in Threads :
        /\ Done(t) /\ ~win32
        /\ pattern = <<"%", "7", "Y", "|", "%", "l">>
        /\ th[t].msg.formatted = <<"2", "0", "1", "4", "|", "i", "n", "f", "o", "\n">>

\* the threads inside get_cached_offset of the z_formatter at slot k
InCacheOf(k) == {t \in Threads : InCache(t) /\ th[t].fi = k}

\* C12: for each z_formatter, at most one thread is inside get_cached_offset
\* and it is the holder of _mutex; an offset stored without its timestamp
\* exists only while the mutex is held; _offset_minutes and _last_update
\* change only in steps of the holder, and the holder gives the mutex up
\* only when it returns, so both stores of a refresh fall into one critical
\* section.
C12_CacheAtomic ==
    /\ [](\A k \in DOMAIN zcache :
             /\ Cardinality(InCacheOf(k)) <= 1
             /\ InCacheOf(k) = IF zcache[k].owner = 0 THEN {} ELSE {zcache[k].owner}
             /\ zcache[k].owner = 0 => ~(\E t \in Threads : th[t].pc = "zstamp" /\ th[t].fi = k))
    /\ [][\A k \in DOMAIN zcache \cap DOMAIN zcache' :
             /\ (\/ zcache'[k].offset_minutes # zcache[k].offset_minutes
                 \/ zcache'[k].last_update # zcache[k].last_update) =>
                    /\ zcache[k].owner # 0
                    /\ zcache'[k].owner = zcache[k].owner
                    /\ th'[zcache[k].owner] # th[zcache[k].owner]
             /\ (zcache[k].owner # 0 /\ zcache'[k].owner # zcache[k].owner) =>
                    /\ zcache'[k].owner = 0
                    /\ th[zcache[k].owner].pc = "zreturn"
       ]_vars

\* one thread has stored the offset and not yet the timestamp while another
\* has reached the same offset directive and waits for the mutex
C12_Witness ==
    \E a, b \in Threads :
        /\ a # b /\ win32
        /\ th[a].pc = "zstamp"
        /\ th[b].pc = "walk" /\ th[b].fi = th[a].fi
        /\ zcache[th[a].fi].owner = a

\* C13 as stated: all offset directives share one cell, so a call through
\* one instance, for a record within the window after the refresh another
\* instance made, obtains the offset that refresh stored.
C13_SingleCell ==
    \A t \in Threads :
        \A k \in DOMAIN zcache :
            (/\ win32 /\ th[t].pc = "zwrite" /\ th[t].fi # k
             /\ th[t].msg.time - zcache[k].last_update >= 0
             /\ th[t].msg.time - zcache[k].last_update < Window)
            => th[t].total_minutes = zcache[k].offset_minutes

\* C14: the hour that "%I" and "%r" write, the first two characters of the
\* line, is a number from 1 to 12.
C14_Hour12InRange ==
    \A t \in Threads :
        (Done(t) /\ pattern \in {<<"%", "I">>, <<"%", "r">>}) =>
            DecValue(SubSeq(th[t].msg.formatted, 1, 2)) \in 1..12

=============================================================================
